---------------------------- MODULE Spec2Model ----------------------------
(***************************************************************************)
(* A model of package log (src/log.go): the line value type, its           *)
(* copy-returning mutators, the deferred hook, the field list with its Go  *)
(* slice storage, and the text serialization of a record.                  *)
(*                                                                         *)
(* Go values of type interface{} are records [t, s, n, a]: t is the        *)
(* dynamic type, s the text of a string or error, n the number of an int   *)
(* (1/0 for a bool), a the elements of a []string.  A format string is a   *)
(* sequence of chunks: a chunk that is one of Verbs is a verb, any other   *)
(* chunk is literal text.  Strings of the model hold no character that     *)
(* JSON or %q would escape.                                                *)
(***************************************************************************)
EXTENDS Integers, Sequences, FiniteSets, TLC

VARIABLES
    heap,       \* backing arrays of every live slice: heap[id] has cap(id) cells
    Tags,       \* log.Tags: a slice
    DebugOn,    \* log.DebugOn
    Service,    \* log.Service
    ln,         \* the Line the program holds and builds (main specification)
    trace,      \* everything observable so far, in order: hook runs, Time() calls, sink writes, the panic
    calls,      \* one entry per terminal call (String, Printf, F, Fatalf) made so far
    hist,       \* one entry per Add made so far (main specification)
    regs,       \* the Lines a, b, c, d of the Add script / the local variables of each thread
    pc,         \* position of the Add script / of each thread
    inp,        \* the inputs drawn at Init (Add script and threads)
    mallocHeader \* bytes the Go runtime of the build puts ahead of a large object: 0 or 8

vars == <<heap, Tags, DebugOn, Service, ln, trace, calls, hist, regs, pc, inp, mallocHeader>>

----------------------------------------------------------------------------
(* Values *)

NilV == [t |-> "nil", s |-> "", n |-> 0, a |-> <<>>]

StrV(s) == [t |-> "str", s |-> s, n |-> 0, a |-> <<>>]

IntV(n) == [t |-> "int", s |-> "", n |-> n, a |-> <<>>]

BoolV(b) == [t |-> "bool", s |-> "", n |-> IF b THEN 1 ELSE 0, a |-> <<>>]

\* a []string that is not nil
StrsV(a) == [t |-> "strs", s |-> "", n |-> 0, a |-> a]

\* the nil []string: an interface value that is not nil, of type []string and length 0
NilStrsV == [t |-> "nilstrs", s |-> "", n |-> 0, a |-> <<>>]

\* v holds a []string, nil or not
IsStrs(v) == v.t \in {"strs", "nilstrs"}

\* an error made by errors.New, such as io.EOF
ErrV(s) == [t |-> "err", s |-> s, n |-> 0, a |-> <<>>]

----------------------------------------------------------------------------
(* Text conversions *)

Digits == <<"0", "1", "2", "3", "4", "5", "6", "7", "8", "9">>

RECURSIVE NatToStr(_)
NatToStr(n) == IF n < 10 THEN Digits[n + 1] ELSE NatToStr(n \div 10) \o Digits[(n % 10) + 1]

IntToStr(n) == IF n < 0 THEN "-" \o NatToStr(-n) ELSE NatToStr(n)

RECURSIVE Join(_, _)
Join(ss, sep) ==
    IF ss = <<>> THEN ""
    ELSE IF Len(ss) = 1 THEN ss[1]
    ELSE ss[1] \o sep \o Join(Tail(ss), sep)

\* a Go string in double quotes (strconv.Quote and json agree on the model's strings)
DQ(s) == "\"" \o s \o "\""

BoolText(v) == IF v.n = 1 THEN "true" ELSE "false"

HexDigits == <<"0", "1", "2", "3", "4", "5", "6", "7", "8", "9", "a", "b", "c", "d", "e", "f">>

Ascii ==
    <<" ", "!", "\"", "#", "$", "%", "&", "'", "(", ")", "*", "+", ",", "-", ".", "/",
      "0", "1", "2", "3", "4", "5", "6", "7", "8", "9", ":", ";", "<", "=", ">", "?",
      "@", "A", "B", "C", "D", "E", "F", "G", "H", "I", "J", "K", "L", "M", "N", "O",
      "P", "Q", "R", "S", "T", "U", "V", "W", "X", "Y", "Z", "[", "\\", "]", "^", "_">>

\* %q of an integer: the quoted rune (strconv.QuoteRune), for the runes 0..95;
\* any other number is outside the model and stands as U+FFFD
QuoteRune(n) ==
    "'" \o
    ( CASE n = 7 -> "\\a" [] n = 8 -> "\\b" [] n = 9 -> "\\t" [] n = 10 -> "\\n"
        [] n = 11 -> "\\v" [] n = 12 -> "\\f" [] n = 13 -> "\\r"
        [] n = 39 -> "\\'" [] n = 92 -> "\\\\"
        [] n >= 32 /\ n <= 95 /\ n # 39 /\ n # 92 -> Ascii[n - 31]
        [] n >= 0 /\ n < 32 /\ (n < 7 \/ n > 13) ->
               "\\x" \o HexDigits[(n \div 16) + 1] \o HexDigits[(n % 16) + 1]
        [] OTHER -> "\\ufffd" )
    \o "'"

\* the type name fmt prints for a bad verb or an extra argument
TypeName(v) ==
    CASE v.t = "str" -> "string"
      [] v.t = "int" -> "int"
      [] v.t = "bool" -> "bool"
      [] IsStrs(v) -> "[]string"
      [] v.t = "err" -> "*errors.errorString"
      [] OTHER -> "<nil>"

\* fmt's %v
FmtV(v) ==
    CASE v.t = "str" -> v.s
      [] v.t = "err" -> v.s
      [] v.t = "int" -> IntToStr(v.n)
      [] v.t = "bool" -> BoolText(v)
      [] IsStrs(v) -> "[" \o Join(v.a, " ") \o "]"
      [] OTHER -> "<nil>"

\* fmt's answer to a verb that does not fit the operand
BadVerb(c, v) ==
    CASE v.t = "nil" -> "%!" \o c \o "(<nil>)"
      [] v.t = "err" -> "&{%!" \o c \o "(string=" \o v.s \o ")}"
      [] IsStrs(v) ->
            "[" \o Join([i \in 1..Len(v.a) |-> "%!" \o c \o "(string=" \o v.a[i] \o ")"], " ") \o "]"
      [] OTHER -> "%!" \o c \o "(" \o TypeName(v) \o "=" \o FmtV(v) \o ")"

Verbs == {"%v", "%d", "%s", "%q"}

VerbChar(verb) ==
    CASE verb = "%v" -> "v" [] verb = "%d" -> "d" [] verb = "%s" -> "s" [] OTHER -> "q"

\* %q of a key (fields.String formats every key with %q)
FmtQ(v) ==
    CASE v.t = "str" -> DQ(v.s)
      [] v.t = "err" -> DQ(v.s)
      [] v.t = "int" -> QuoteRune(v.n)
      [] IsStrs(v) -> "[" \o Join([i \in 1..Len(v.a) |-> DQ(v.a[i])], " ") \o "]"
      [] OTHER -> BadVerb("q", v)

FmtVerb(verb, v) ==
    CASE verb = "%v" -> FmtV(v)
      [] verb = "%d" -> IF v.t = "int" THEN IntToStr(v.n) ELSE BadVerb("d", v)
      [] verb = "%s" -> IF v.t \in {"str", "err", "strs", "nilstrs"} THEN FmtV(v) ELSE BadVerb("s", v)
      [] OTHER -> FmtQ(v)

Extra(v) == IF v.t = "nil" THEN "<nil>" ELSE TypeName(v) \o "=" \o FmtV(v)

RECURSIVE SprintfFrom(_, _, _, _)
SprintfFrom(f, v, i, j) ==
    IF i > Len(f)
    THEN IF j <= Len(v)
         THEN "%!(EXTRA " \o Join([k \in 1..(Len(v) - j + 1) |-> Extra(v[j + k - 1])], ", ") \o ")"
         ELSE ""
    ELSE IF f[i] \in Verbs
         THEN IF j > Len(v)
              THEN "%!" \o VerbChar(f[i]) \o "(MISSING)" \o SprintfFrom(f, v, i + 1, j)
              ELSE FmtVerb(f[i], v[j]) \o SprintfFrom(f, v, i + 1, j + 1)
         ELSE f[i] \o SprintfFrom(f, v, i + 1, j)

\* fmt.Sprintf(f, v...)
Sprintf(f, v) == SprintfFrom(f, v, 1, 1)

\* quote: nil as "", an error or Stringer as its text, then json.Marshal,
\* which writes a nil slice as null and any other slice as an array
quote(v) ==
    CASE v.t = "nil" -> DQ("")
      [] v.t = "nilstrs" -> "null"
      [] v.t = "err" -> DQ(v.s)
      [] v.t = "str" -> DQ(v.s)
      [] v.t = "int" -> IntToStr(v.n)
      [] v.t = "bool" -> BoolText(v)
      [] OTHER -> "[" \o Join([i \in 1..Len(v.a) |-> DQ(v.a[i])], ",") \o "]"

\* zero as it would be if it took no []string for empty
zeroNever(v) == FALSE

\* zero: a []string of length 0, nil or not, and nothing else
zero(v) == IsStrs(v) /\ Len(v.a) = 0

\* the test as it would be without val == ""
SkippedUnlessEmpty(val) == val = NilV \/ zero(val)

\* the test of fields.String that skips a pair: val == "" || val == nil || zero(val)
Skipped(val) == val = StrV("") \/ val = NilV \/ zero(val)

----------------------------------------------------------------------------
(* Go slices.  A slice is [arr, len, cap]: arr names its backing array in   *)
(* the heap (0: none), and the cells of an array past every len hold the   *)
(* zero value.  Operators that allocate or write take the heap and return  *)
(* it with their result.                                                   *)

\* fields{}: the empty slice literal
EmptySlice == [arr |-> 0, len |-> 0, cap |-> 0]

\* the elements s[0:len(s)]
Elems(h, s) == [i \in 1..s.len |-> h[s.arr][i]]

\* the size of an interface{} element, in bytes
ElemSize == 16

\* the runtime's allocation size classes from 16 to 4096 bytes; no list of the
\* model needs more
SizeClasses ==
    {16, 32, 48, 64, 80, 96, 112, 128, 144, 160, 176, 192, 208, 224, 240, 256,
     288, 320, 352, 384, 416, 448, 480, 512, 576, 640, 704, 768, 896, 1024,
     1152, 1280, 1408, 1536, 1792, 2048, 2304, 2688, 3072, 3200, 3456, 4096}

\* the malloc header of the Go runtimes a build can use: none up to Go 1.21,
\* 8 bytes from Go 1.22
MallocHeaders == {0, 8}

\* the smallest size class that holds size bytes
SizeClass(size) ==
    CHOOSE c \in SizeClasses : c >= size /\ \A d \in SizeClasses : d >= size => c <= d

\* runtime roundupsize for an object with pointers, under a malloc header of
\* hdr bytes: the header is counted for objects above 512 bytes only
RoundUpSize(size, hdr) ==
    IF size > 512 THEN SizeClass(size + hdr) - hdr ELSE SizeClass(size)

\* runtime nextslicecap below 256 elements: the length needed if it is more
\* than double the old capacity, else double the old capacity
NextSliceCap(oldCap, newLen) == IF newLen > 2 * oldCap THEN newLen ELSE 2 * oldCap

\* the capacity append grows to (runtime growslice): the next capacity, rounded
\* up to what its size class holds
GrowCap(oldCap, newLen) ==
    RoundUpSize(NextSliceCap(oldCap, newLen) * ElemSize, mallocHeader) \div ElemSize

\* a composite literal fields{...}: a new array holding exactly xs
Literal(h, xs) ==
    [h |-> Append(h, xs), s |-> [arr |-> Len(h) + 1, len |-> Len(xs), cap |-> Len(xs)]]

\* append writes xs into the spare capacity of s's own array
InPlace(h, s, xs) ==
    [h |-> [h EXCEPT ![s.arr] =
               [i \in 1..s.cap |-> IF i > s.len /\ i <= s.len + Len(xs) THEN xs[i - s.len] ELSE @[i]]],
     s |-> [s EXCEPT !.len = s.len + Len(xs)]]

\* append moves s into a new array of capacity c and writes xs after it
Grown(h, s, xs, c) ==
    [h |-> Append(h, [i \in 1..c |-> IF i <= s.len THEN h[s.arr][i]
                                     ELSE IF i <= s.len + Len(xs) THEN xs[i - s.len]
                                     ELSE NilV]),
     s |-> [arr |-> Len(h) + 1, len |-> s.len + Len(xs), cap |-> c]]

\* append(s, xs...): in place when the capacity allows, else into a new array
append(h, s, xs) ==
    IF Len(xs) = 0 THEN [h |-> h, s |-> s]
    ELSE IF s.len + Len(xs) <= s.cap THEN InPlace(h, s, xs)
    ELSE Grown(h, s, xs, GrowCap(s.cap, s.len + Len(xs)))

\* append(c, xs...) for a slice c just made: c is [h, s]
AppendTo(c, xs) == append(c.h, c.s, xs)

\* fields.Add as it would be without the copy: append(l, f...)
fieldsAddShared(h, l, f) == append(h, l, f)

\* the inner append as it would be if it handed back the receiver's own slice
fieldsCopyShared(h, l) == [h |-> h, s |-> l]

\* the inner append of fields.Add: append(fields{}, l...), a copy of l in a new array
fieldsCopy(h, l) == append(h, EmptySlice, Elems(h, l))

\* fields.Add: append(append(fields{}, l...), f...)
fieldsAdd(h, l, f) == AppendTo(fieldsCopy(h, l), f)

\* one pair of the loop of fields.String: s with the pair added, or s if it is skipped
WithPair(s, sep, key, val) ==
    IF Skipped(val) THEN s ELSE s \o sep \o FmtQ(key) \o ":" \o quote(val)

\* the loop of fields.String from index i (0-based) on, s as there so far
\* (sep is "" until a pair has been written)
RECURSIVE fieldsStringFrom(_, _, _)
fieldsStringFrom(f, i, s) ==
    IF i + 1 < Len(f)
    THEN fieldsStringFrom(f, i + 2, WithPair(s, IF s = "" THEN "" ELSE ", ", f[i + 1], f[i + 2]))
    ELSE s

\* fields.String, of the elements f
fieldsString(f) == "{" \o fieldsStringFrom(f, 0, "") \o "}"

\* the arrays that are still referenced, renumbered 1..n in their order, and
\* what each old number becomes (an unreferenced array is collected)
Live(h, roots) == {i \in 1..Len(h) : i \in roots}

NewId(h, roots, id) == IF id = 0 THEN 0 ELSE Cardinality({i \in Live(h, roots) : i <= id})

RECURSIVE KeepLive(_, _, _)
KeepLive(h, roots, i) ==
    IF i > Len(h) THEN <<>>
    ELSE (IF i \in roots THEN <<h[i]>> ELSE <<>>) \o KeepLive(h, roots, i + 1)

Collect(h, roots) == KeepLive(h, roots, 1)

Moved(h, roots, s) == [s EXCEPT !.arr = NewId(h, roots, s.arr)]

----------------------------------------------------------------------------
(* Lines *)

\* line{Level: lv}
NewLine(lv) == [fn |-> "", fields |-> EmptySlice, Level |-> lv, msg |-> ""]

Info == NewLine("info")

Warn == NewLine("warn")

Error == NewLine("error")

Fatal == NewLine("fatal")

Debug == NewLine("debug")

\* Default = Info
Default == Info

\* l with the field list r.s: [h, l]
WithFields(l, r) == [h |-> r.h, l |-> [l EXCEPT !.fields = r.s]]

\* line.Add: the result l and the heap h
lineAdd(h, l, f) == WithFields(l, fieldsAdd(h, l.fields, f))

\* line.AddFunc; fn = "" is AddFunc(nil)
AddFunc(l, fn) == [l EXCEPT !.fn = fn]

\* line.Msg
Msg(l, f, v) == [l EXCEPT !.msg = Sprintf(f, v)]

\* line.Info, line.Error, line.Warn, line.Fatal
AsLevel(l, lv) == [l EXCEPT !.Level = lv]

\* what the run has shown so far, in order
Event(ev, text) == [ev |-> ev, text |-> text]

\* the hooks a program of the model attaches:
\*   trace  TestAddFunc's fn: renders the Line it was handed, prints it, returns it
\*   where  the README's fn: returns l.Add("func", where())
\*   fatal  returns l.Fatal()
\*   debug  sets l.Level to the debug level and returns l
Hooks == {"trace", "where", "fatal", "debug"}

NestedFormat == <<"nested recursive call">>

WhereFields == <<StrV("func"), StrV("f.go:7")>>

\* the payload's format as it would be without the prefix
FatalFormatBare(f) == f

\* the fatal payload's format: "fatal: "+f
FatalFormat(f) == <<"fatal: ">> \o f

(* A machine m is what a call reads and changes: the heap m.h, the trace    *)
(* m.tr, the globals m.Tags, m.DebugOn, m.Service, and m.dead once a panic *)
(* is unwinding the stack (nothing further of the call runs).              *)

Emit(m, ev, text) == [m EXCEPT !.tr = Append(@, Event(ev, text))]

RECURSIVE String(_, _)
RECURSIVE Printf(_, _, _, _)
RECURSIVE RunHook(_, _, _)

\* the trace hook after its l.String(): l.Printf("nested recursive call"); return l
TraceRest(l, r) ==
    [l |-> l, m |-> IF r.m.dead THEN r.m ELSE Printf(l, NestedFormat, <<>>, r.m)]

\* the where hook's result: r is [h, l] of l.Add
WhereRest(r, m) == [l |-> r.l, m |-> [m EXCEPT !.h = r.h]]

\* the body of the hook named fn: [l: the Line it returns, m]
HookBody(fn, l, m) ==
    CASE fn = "trace" -> TraceRest(l, String(l, m))
      [] fn = "where" -> WhereRest(lineAdd(m.h, l, WhereFields), m)
      [] fn = "fatal" -> [l |-> AsLevel(l, Fatal.Level), m |-> m]
      [] OTHER -> [l |-> AsLevel(l, Debug.Level), m |-> m]

\* fn(l) for the hook named fn, noted in the trace
RunHook(fn, l, m) == HookBody(fn, l, Emit(m, "hook", fn))

\* the Time function of the tests and examples
TimeValue == 1000

\* the last line of String: the assembled list c, as text
Serialize(c, m) == [out |-> fieldsString(Elems(c.h, c.s)), m |-> [m EXCEPT !.h = c.h]]

\* String after Time(): hdr := append(fields{svc, ts, level}, Tags...), then l.fields, then msg
Assemble(l, m) ==
    Serialize(
        AppendTo(
            AppendTo(
                AppendTo(Literal(m.h, <<StrV("svc"), StrV(m.Service),
                                        StrV("ts"), IntV(TimeValue),
                                        StrV("level"), StrV(l.Level)>>),
                         Elems(m.h, m.Tags)),
                Elems(m.h, l.fields)),
            <<StrV("msg"), StrV(l.msg)>>),
        m)

\* String after its hook: r is [l, m]; a panic in the hook ends the call
Render(r) ==
    IF r.m.dead THEN [out |-> "", m |-> r.m] ELSE Assemble(r.l, Emit(r.m, "time", ""))

\* l.fn = fn, after the hook returned k = [l, m]
Reattach(k, fn) == [l |-> [k.l EXCEPT !.fn = fn], m |-> k.m]

\* String as it would be without l.fn = nil before the hook runs: the hook is
\* handed a Line that still carries it, so a hook that renders its Line runs
\* again, until the stack overflows (here: once the trace is 8 events long)
StringStillAttached(l, m) ==
    IF Len(m.tr) >= 8 THEN [out |-> "", m |-> [m EXCEPT !.dead = TRUE]]
    ELSE IF l.fn # ""
    THEN Render(Reattach(RunHook(l.fn, l, m), l.fn))
    ELSE Render([l |-> l, m |-> m])

\* line.String: [out: the text, m]
String(l, m) ==
    IF l.fn # ""
    THEN Render(Reattach(RunHook(l.fn, [l EXCEPT !.fn = ""], m), l.fn))
    ELSE Render([l |-> l, m |-> m])

\* Printf after the write: the panic of a fatal line
Escalate(m, l, f, v) ==
    IF l.Level = "fatal"
    THEN [Emit(m, "panic", Sprintf(FatalFormat(f), v)) EXCEPT !.dead = TRUE]
    ELSE m

\* Printf's end as it would be with the panic ahead of the write
WrittenAfterSignal(r, l, f, v) ==
    IF r.m.dead THEN r.m
    ELSE IF l.Level = "fatal" THEN Escalate(r.m, l, f, v)
    ELSE Emit(r.m, "write", r.out \o "\n")

\* Printf after String returned r = [out, m]: fmt.Fprintln(stderr, out)
Written(r, l, f, v) ==
    IF r.m.dead THEN r.m ELSE Escalate(Emit(r.m, "write", r.out \o "\n"), l, f, v)

\* Printf as it would be without the debug gate
PrintfUngated(l, f, v, m) == Written(String(Msg(l, f, v), m), l, f, v)

\* line.Printf (and F): the machine after the call
Printf(l, f, v, m) ==
    IF l.Level = Debug.Level /\ ~m.DebugOn THEN m
    ELSE Written(String(Msg(l, f, v), m), l, f, v)

----------------------------------------------------------------------------
(* The main specification: a program sets the package variables, builds a  *)
(* Line from one of the package's starting points, and then renders and    *)
(* prints it.                                                              *)

MaxAdds == 2

MaxTagAdds == 1

MaxCalls == 2

Services == {"", "ex"}

\* argument lists of Add: whole pairs, zero values, and an unpaired key
ArgLists ==
    { <<StrV("ip"), StrV("1.2.3.4")>>,
      <<StrV("hint"), StrsV(<<>>), StrV("n"), IntV(5), StrV("null"), NilStrsV, StrV("nil"), NilV>>,
      <<StrV("a")>> }

TagLists == { <<StrV("subcmd"), StrV("test")>> }

\* format strings with their operands
Formats ==
    { [f |-> <<>>, v |-> <<>>],
      [f |-> <<"error: ", "%v">>, v |-> <<ErrV("EOF")>>] }

PkgFormat == [f |-> <<"count: ", "%d">>, v |-> <<IntV(7)>>]

Levels == {"info", "warn", "error", "fatal"}

StartLines == {Info, Warn, Error, Fatal, Debug}

\* the process is unwinding a panic: nothing more of the program runs
Panicked(tr) == tr # <<>> /\ tr[Len(tr)].ev = "panic"

Machine == [h |-> heap, tr |-> trace, Tags |-> Tags, DebugOn |-> DebugOn,
            Service |-> Service, dead |-> FALSE]

\* a Line as a call records it: its fields by value
Seen(h, l) == [fn |-> l.fn, Level |-> l.Level, msg |-> l.msg, elems |-> Elems(h, l.fields)]

\* the state after a step of the main program: arrays no longer referenced are collected
Settle(h, tags, l) ==
    LET roots == {tags.arr, l.fields.arr} IN
    /\ heap' = Collect(h, roots)
    /\ Tags' = Moved(h, roots, tags)
    /\ ln' = [l EXCEPT !.fields = Moved(h, roots, l.fields)]

SettleTags(r) == Settle(r.h, r.s, ln)

SettleLine(r) == Settle(r.h, Tags, r.l)

\* the entry of calls for a call of op on l that took the machine to m
Call(op, l, fmt, out, m) ==
    [op |-> op, recv |-> Seen(heap, l), f |-> fmt.f, v |-> fmt.v, dbg |-> DebugOn,
     from |-> Len(trace), to |-> Len(m.tr), out |-> out, own |-> pc # "start"]

Init ==
    /\ mallocHeader \in MallocHeaders
    /\ heap = <<>>
    /\ Tags = EmptySlice
    /\ DebugOn = FALSE
    /\ Service \in Services
    /\ ln = Default
    /\ trace = <<>>
    /\ calls = <<>>
    /\ hist = <<>>
    /\ regs = <<>>
    /\ pc = "start"
    /\ inp = <<>>

\* log.Tags = log.Tags.Add(f...), at startup
SetTags(f) ==
    /\ pc = "start"
    /\ Tags.len < 2 * MaxTagAdds
    /\ SettleTags(fieldsAdd(heap, Tags, f))
    /\ UNCHANGED <<mallocHeader, DebugOn, Service, trace, calls, hist, regs, pc, inp>>

\* log.DebugOn = b
SetDebugOn(b) ==
    /\ pc = "render"
    /\ ~Panicked(trace)
    /\ b # DebugOn
    /\ DebugOn' = b
    /\ UNCHANGED <<mallocHeader, heap, Tags, Service, ln, trace, calls, hist, regs, pc, inp>>

\* the program takes one of Info, Warn, Error, Fatal, Debug
Start(l) ==
    /\ pc = "start"
    /\ ln' = l
    /\ pc' = "build"
    /\ UNCHANGED <<mallocHeader, heap, Tags, DebugOn, Service, trace, calls, hist, regs, inp>>

\* ln = ln.Add(f...)
Add(f) ==
    /\ pc = "build"
    /\ Len(hist) < MaxAdds
    /\ SettleLine(lineAdd(heap, ln, f))
    /\ hist' = Append(hist, f)
    /\ UNCHANGED <<mallocHeader, DebugOn, Service, trace, calls, regs, pc, inp>>

\* ln = ln.AddFunc(fn)
SetFunc(fn) ==
    /\ pc = "build"
    /\ ln' = AddFunc(ln, fn)
    /\ UNCHANGED <<mallocHeader, heap, Tags, DebugOn, Service, trace, calls, hist, regs, pc, inp>>

\* ln = ln.Info(), ln.Warn(), ln.Error(), ln.Fatal()
SetLevel(lv) ==
    /\ pc = "build"
    /\ ln' = AsLevel(ln, lv)
    /\ UNCHANGED <<mallocHeader, heap, Tags, DebugOn, Service, trace, calls, hist, regs, pc, inp>>

\* ln = ln.Msg(f, v...)
SetMsg(fmt) ==
    /\ pc = "build"
    /\ ln' = Msg(ln, fmt.f, fmt.v)
    /\ UNCHANGED <<mallocHeader, heap, Tags, DebugOn, Service, trace, calls, hist, regs, pc, inp>>

\* a terminal call op on l that ended with the text out and the machine m:
\* of the machine only the trace is kept (what the call allocated is unreferenced)
Finish(op, l, fmt, out, m) ==
    /\ trace' = m.tr
    /\ calls' = Append(calls, Call(op, l, fmt, out, m))
    /\ pc' = "render"
    /\ UNCHANGED <<mallocHeader, heap, Tags, DebugOn, Service, ln, hist, regs, inp>>

FinishString(r) == Finish("String", ln, [f |-> <<>>, v |-> <<>>], r.out, r.m)

\* the program renders or prints the Line it has built, or goes on with it
CanCall == pc \in {"build", "render"} /\ Len(calls) < MaxCalls /\ ~Panicked(trace)

\* ln.String()
DoString ==
    /\ CanCall
    /\ FinishString(String(ln, Machine))

\* ln.Printf(f, v...), ln.F(f, v...)
DoPrintf(fmt) ==
    /\ CanCall
    /\ Finish("Printf", ln, fmt, "", Printf(ln, fmt.f, fmt.v, Machine))

\* log.Printf(f, v...): Default.F(f, v...)
PkgPrintf(fmt) ==
    /\ pc = "start"
    /\ Finish("Printf", Default, fmt, "", Printf(Default, fmt.f, fmt.v, Machine))

\* log.Fatalf(f, v...): Fatal.F(f, v...)
PkgFatalf(fmt) ==
    /\ pc = "start"
    /\ Finish("Printf", Fatal, fmt, "", Printf(Fatal, fmt.f, fmt.v, Machine))

Next ==
    \/ \E f \in TagLists : SetTags(f)
    \/ \E b \in BOOLEAN : SetDebugOn(b)
    \/ \E l \in StartLines : Start(l)
    \/ \E f \in ArgLists : Add(f)
    \/ \E fn \in Hooks \cup {""} : SetFunc(fn)
    \/ \E lv \in Levels : SetLevel(lv)
    \/ SetMsg(PkgFormat)
    \/ DoString
    \/ \E fmt \in Formats : DoPrintf(fmt)
    \/ PkgPrintf(PkgFormat)
    \/ PkgFatalf(PkgFormat)

Spec == Init /\ [][Next]_vars

----------------------------------------------------------------------------
(* What the claims speak of, read off the recorded calls.                  *)

\* the part of the trace that call c produced
Segment(c) == SubSeq(trace, c.from + 1, c.to)

Count(seq, ev) == Cardinality({i \in DOMAIN seq : seq[i].ev = ev})

Writes == SelectSeq(trace, LAMBDA e : e.ev = "write")

\* the sink: every text written so far
Sink == [i \in DOMAIN Writes |-> Writes[i].text]

\* a value the spec calls a zero value: nil, the empty string, an empty array
IsZero(v) == v \in {NilV, StrV(""), StrsV(<<>>), NilStrsV}

\* es read as pairs: element 2i-1 the key, element 2i the value
PairsOf(es) == [i \in 1..(Len(es) \div 2) |-> <<es[2 * i - 1], es[2 * i]>>]

\* es without an unpaired last element
WholePairs(es) == SubSeq(es, 1, 2 * (Len(es) \div 2))

\* the pairs of ps that have a value to show
Shown(ps) == SelectSeq(ps, LAMBDA p : ~IsZero(p[2]))

PairText(p) == FmtQ(p[1]) \o ":" \o quote(p[2])

\* a record that lists exactly the pairs ps, in order
RecordOf(ps) == "{" \o Join([i \in 1..Len(ps) |-> PairText(ps[i])], ", ") \o "}"

\* the Line a hook hands back, for the receiver r of a call
AfterHook(r) ==
    CASE r.fn = "where" -> [r EXCEPT !.elems = @ \o WhereFields]
      [] r.fn = "fatal" -> [r EXCEPT !.Level = "fatal"]
      [] r.fn = "debug" -> [r EXCEPT !.Level = "debug"]
      [] OTHER -> r

\* the message of call c: the receiver's for String, the formatted one for Printf
MsgOf(c) == IF c.op = "String" THEN c.recv.msg ELSE Sprintf(c.f, c.v)

HeaderOf(r) ==
    <<StrV("svc"), StrV(Service), StrV("ts"), IntV(TimeValue), StrV("level"), StrV(r.Level)>>

TagElems == Elems(heap, Tags)

\* the list a render of r with message msg serializes, element by element
Flat(r, msg) == HeaderOf(r) \o TagElems \o r.elems \o <<StrV("msg"), StrV(msg)>>

\* the record of a render of r with message msg: the pairs of the list, position
\* by position, that have a value to show
TextOf(r, msg) == RecordOf(Shown(PairsOf(Flat(r, msg))))

\* the record call c renders
ExpectedText(c) == TextOf(AfterHook(c.recv), MsgOf(c))

\* call c is a Printf that the debug gate suppresses
Suppressed(c) == c.op = "Printf" /\ c.recv.Level = "debug" /\ ~c.dbg

\* call c ran to its end (no panic cut it short)
Completed(c) == Count(Segment(c), "panic") = 0

\* the text call c produced: String's result, or what Printf wrote last
Produced(c) ==
    IF c.op = "String" THEN c.out
    ELSE LET w == SelectSeq(Segment(c), LAMBDA e : e.ev = "write")
         IN  IF w = <<>> THEN "" ELSE w[Len(w)].text

\* call c rendered a record of its own: it was not suppressed and its hook did not panic
Rendered(c) ==
    /\ ~Suppressed(c)
    /\ ~(c.recv.fn = "trace" /\ c.recv.Level = "fatal")

\* what call c hands on: the record, and for Printf the newline of Fprintln
LineOf(c) == IF c.op = "String" THEN ExpectedText(c) ELSE ExpectedText(c) \o "\n"

\* the pairs of the list call c serializes, position by position
PairsIn(c) == PairsOf(Flat(AfterHook(c.recv), MsgOf(c)))

----------------------------------------------------------------------------
(* C7: zero-value suppression *)

\* C7: in every rendered record, a pair whose value is nil, the empty string or
\* an empty array is left out, key and value, wherever it stands in the list, and
\* every other pair is written: the record is exactly the pairs of the
\* serialized list whose value is none of the three, in the list's order.
C7_ZeroSuppressed ==
    \A i \in DOMAIN calls :
        Rendered(calls[i]) => Produced(calls[i]) = LineOf(calls[i])

\* a record was rendered from a list with an empty service name first, an empty
\* array, a nil array and a nil between and after pairs that show, and an empty
\* message last
C7_Witness ==
    \E i \in DOMAIN calls :
        LET c == calls[i]
            ps == PairsIn(c)
        IN  /\ Rendered(c)
            /\ Produced(c) = LineOf(c)
            /\ ps[1][2] = StrV("")
            /\ ps[Len(ps)][2] = StrV("")
            /\ \E j, k, n \in DOMAIN ps :
                  /\ j < k /\ k < n
                  /\ ps[j][2] = StrsV(<<>>)
                  /\ ~IsZero(ps[k][2])
                  /\ ps[n][2] = NilV
                  /\ \E q \in DOMAIN ps : k < q /\ ps[q][2] = NilStrsV

----------------------------------------------------------------------------
(* C3: the hook runs once per call *)

\* C3: a String call, and a Printf/F call that the debug gate does not
\* suppress, on a Line with a hook runs the hook exactly once, also when the
\* hook renders and prints the Line it was handed; on a Line without a hook
\* (never attached, or cleared with AddFunc(nil)) it runs no hook; the receiver
\* has the same fields, level, message and hook after the call; so the hook has
\* run as many times as there were such calls.
C3_HookOncePerCall ==
    /\ \A i \in DOMAIN calls :
          LET c == calls[i] IN
          /\ Count(Segment(c), "hook") = IF c.recv.fn # "" /\ ~Suppressed(c) THEN 1 ELSE 0
          /\ c.own => Seen(heap, ln) = c.recv
    /\ Count(trace, "hook")
          = Cardinality({i \in DOMAIN calls : calls[i].recv.fn # "" /\ ~Suppressed(calls[i])})

\* the Line with TestAddFunc's hook was printed twice: the hook rendered and
\* printed the Line it was handed both times (two nested writes, two outer
\* writes) and ran twice in all
C3_Witness ==
    /\ Len(calls) = 2
    /\ \A i \in DOMAIN calls : calls[i].op = "Printf" /\ calls[i].recv.fn = "trace"
    /\ Count(trace, "hook") = 2
    /\ Count(trace, "write") = 4

----------------------------------------------------------------------------
(* C4: the debug gate *)

\* C4 as claimed: while DebugOn is false, String and Printf/F on a debug-level
\* Line write nothing and run neither the hook nor the time source; with
\* DebugOn true the Line's record is written.
C4_GateOnRenderAndPrint ==
    \A i \in DOMAIN calls :
        LET c == calls[i] IN
        /\ (c.recv.Level = "debug" /\ ~c.dbg) => c.to = c.from
        /\ (c.recv.Level = "debug" /\ c.dbg /\ c.op = "Printf") => Produced(c) = LineOf(c)

\* C4 as the code has it: while DebugOn is false, Printf/F on a debug-level Line
\* writes nothing and runs neither the hook nor the time source; String on it
\* writes nothing to the sink either, but does run the hook once, call the
\* time source and return the Line's normal record; and with DebugOn true
\* Printf/F writes that record.
C4_GateOnPrintOnly ==
    \A i \in DOMAIN calls :
        LET c == calls[i] IN
        /\ (c.recv.Level = "debug" /\ ~c.dbg /\ c.op = "Printf") => c.to = c.from
        /\ (c.recv.Level = "debug" /\ ~c.dbg /\ c.op = "String") =>
              /\ Count(Segment(c), "write") = 0
              /\ Count(Segment(c), "hook") = IF c.recv.fn = "" THEN 0 ELSE 1
              /\ Count(Segment(c), "time") >= 1
              /\ c.out = ExpectedText(c)
        /\ (c.recv.Level = "debug" /\ c.dbg /\ c.op = "Printf") =>
              /\ Produced(c) = LineOf(c)
              /\ trace[c.to] = Event("write", LineOf(c))

\* a debug-level Line with a hook was printed while DebugOn was false, leaving
\* no trace, and printed again once DebugOn was true, which wrote its record
C4_Witness ==
    /\ Len(calls) = 2
    /\ calls[1].recv = calls[2].recv
    /\ calls[1].recv.Level = "debug" /\ calls[1].recv.fn = "where"
    /\ calls[1].op = "Printf" /\ ~calls[1].dbg /\ calls[1].to = calls[1].from
    /\ calls[2].op = "Printf" /\ calls[2].dbg
    /\ Sink = <<LineOf(calls[2])>>

----------------------------------------------------------------------------
(* C5 and C10: fatal escalation *)

\* text as call c hands it on: as it is for String, with Fprintln's newline for Printf
Handed(c, text) == IF c.op = "String" THEN text ELSE text \o "\n"

\* the call the trace hook makes on the Line l it was handed: l.Printf("nested recursive call")
NestedMsg == Sprintf(NestedFormat, <<>>)

NestedRecord(c) == TextOf([c.recv EXCEPT !.fn = ""], NestedMsg) \o "\n"

\* C5 as claimed: every Printf/F call on a fatal-level Line (Fatalf too) writes
\* its own record and then raises the signal, once, as the last thing it does;
\* a Printf/F on a Line of any other level raises none.
C5_OwnRecordThenSignal ==
    \A i \in DOMAIN calls :
        LET c == calls[i] IN
        c.op = "Printf" =>
            IF c.recv.Level = "fatal"
            THEN /\ c.to >= c.from + 2
                 /\ Count(Segment(c), "panic") = 1
                 /\ trace[c.to].ev = "panic"
                 /\ trace[c.to - 1] = Event("write", LineOf(c))
            ELSE Count(Segment(c), "panic") = 0

\* C5 as the code has it: every Printf/F call on a fatal-level Line (Fatalf too)
\* ends with the signal, raised once and directly after a record was written:
\* the call's own record, or, when the Line's hook itself prints the fatal-level
\* Line it was handed, the record of that nested Printf, whose signal ends the
\* outer call before its own record is written.  The signal is never raised
\* without a record written just before it, and a Printf/F on a Line of any other
\* level raises none.
C5_RecordThenSignal ==
    /\ \A i \in DOMAIN calls :
          LET c == calls[i] IN
          c.op = "Printf" =>
              IF c.recv.Level = "fatal"
              THEN /\ c.to >= c.from + 2
                   /\ Count(Segment(c), "panic") = 1
                   /\ trace[c.to].ev = "panic"
                   /\ trace[c.to - 1] =
                         Event("write", IF c.recv.fn = "trace" THEN NestedRecord(c) ELSE LineOf(c))
                   /\ c.recv.fn = "trace" => Count(Segment(c), "write") = 1
              ELSE Count(Segment(c), "panic") = 0
    /\ \A j \in DOMAIN trace :
          trace[j].ev = "panic" => j > 1 /\ trace[j - 1].ev = "write"

\* a fatal-level Line with fields was printed: its own record reached the sink
\* and the signal followed it
C5_Witness ==
    \E i \in DOMAIN calls :
        LET c == calls[i] IN
        /\ c.op = "Printf" /\ c.own /\ c.recv.Level = "fatal" /\ c.recv.fn = "where"
        /\ c.recv.elems # <<>>
        /\ trace[c.to].ev = "panic"
        /\ trace[c.to - 1] = Event("write", LineOf(c))

\* C10 as claimed: the payload of the signal a fatal-level Printf/F raises is
\* the formatted message of that call, the text of the record's msg value.
C10_PayloadIsMessage ==
    \A i \in DOMAIN calls :
        LET c == calls[i] IN
        (c.op = "Printf" /\ c.recv.fn # "trace") =>
            \A j \in (c.from + 1)..c.to :
                trace[j].ev = "panic" => trace[j].text = MsgOf(c)

\* the message of the Printf that raises the signal of call c: the call's own,
\* or that of the nested Printf of the trace hook
RaisedMsg(c) == IF c.recv.fn = "trace" THEN NestedMsg ELSE MsgOf(c)

\* C10 as the code has it: the payload is "fatal: " followed by the formatted
\* message of the Printf/F call that raised the signal, and that message is the
\* msg value of the record written just before.
C10_PayloadIsPrefixedMessage ==
    \A i \in DOMAIN calls :
        LET c == calls[i] IN
        c.op = "Printf" =>
            \A j \in (c.from + 1)..c.to :
                trace[j].ev = "panic" =>
                    /\ trace[j].text = "fatal: " \o RaisedMsg(c)
                    /\ trace[j - 1].text =
                          TextOf(IF c.recv.fn = "trace" THEN [c.recv EXCEPT !.fn = ""]
                                 ELSE AfterHook(c.recv), RaisedMsg(c)) \o "\n"

\* a fatal-level Line was printed with a format that has a verb: the payload is
\* the formatted message after "fatal: "
C10_Witness ==
    \E i \in DOMAIN calls :
        LET c == calls[i] IN
        /\ c.op = "Printf" /\ c.recv.Level = "fatal" /\ c.recv.fn = ""
        /\ c.f = <<"error: ", "%v">>
        /\ trace[c.to] = Event("panic", "fatal: error: EOF")
        /\ MsgOf(c) = "error: EOF"

----------------------------------------------------------------------------
(* C6, C8, C9: the shape of the record *)

MsgPair(c) == <<StrV("msg"), StrV(MsgOf(c))>>

\* what precedes the message in the list call c serializes
FrontOf(c) == HeaderOf(AfterHook(c.recv)) \o TagElems \o AfterHook(c.recv).elems

\* C6: the record lists svc, ts, level, then every global tag pair in insertion
\* order, then every instance field pair in the order the Adds were composed,
\* then the msg pair, last (a pair without a value to show is left out).
C6_FieldOrder ==
    \A i \in DOMAIN calls :
        LET c == calls[i] IN
        Rendered(c) =>
            Produced(c) = Handed(c, RecordOf(Shown(
                              PairsOf(HeaderOf(AfterHook(c.recv)))
                              \o PairsOf(TagElems)
                              \o PairsOf(AfterHook(c.recv).elems)
                              \o <<MsgPair(c)>>)))

RECURSIVE ConcatWhole(_)
ConcatWhole(fs) == IF fs = <<>> THEN <<>> ELSE WholePairs(fs[1]) \o ConcatWhole(Tail(fs))

\* C8: an unpaired trailing key of an Add is dropped and never stored: the field
\* list has even length after every Add, and the Line renders the record it
\* would render had the key not been passed.
C8_TrailingKeyDropped ==
    /\ ln.fields.len % 2 = 0
    /\ \A i \in DOMAIN calls :
          LET c == calls[i] IN
          (c.own /\ Rendered(c)) =>
              Produced(c) = Handed(c, TextOf(AfterHook([c.recv EXCEPT !.elems = ConcatWhole(hist)]),
                                             MsgOf(c)))

\* C9 as claimed: every rendered record ends with the msg pair, also when the
\* message is empty; Info with no fields and no message, service "ex", renders
\* {"svc":"ex", "ts":1000, "level":"info", "msg":""}.
C9_EndsWithMsg ==
    \A i \in DOMAIN calls :
        LET c == calls[i] IN
        /\ Rendered(c) =>
              Produced(c) = Handed(c, RecordOf(Shown(PairsOf(FrontOf(c))) \o <<MsgPair(c)>>))
        /\ (c.op = "String" /\ c.recv = Seen(<<>>, Info) /\ Service = "ex" /\ TagElems = <<>>) =>
              c.out = "{\"svc\":\"ex\", \"ts\":1000, \"level\":\"info\", \"msg\":\"\"}"

\* C9 as the code has it: the msg pair is subject to the same suppression as
\* every pair.  A rendered record ends with the msg pair exactly when the message
\* is not empty and the global tags and instance fields together have an even
\* number of elements; with an empty message the record has no msg pair, and Info
\* with no fields and no message, service "ex", renders
\* {"svc":"ex", "ts":1000, "level":"info"}; with an odd number of elements the
\* last one is paired with the text "msg" and the message is not rendered.
C9_MsgWhenNotEmpty ==
    \A i \in DOMAIN calls :
        LET c == calls[i] IN
        /\ Rendered(c) =>
              Produced(c) = Handed(c,
                  IF Len(FrontOf(c)) % 2 = 1
                  THEN RecordOf(Shown(PairsOf(FrontOf(c) \o <<StrV("msg")>>)))
                  ELSE IF MsgOf(c) = ""
                  THEN RecordOf(Shown(PairsOf(FrontOf(c))))
                  ELSE RecordOf(Shown(PairsOf(FrontOf(c))) \o <<MsgPair(c)>>))
        /\ (c.op = "String" /\ c.recv = Seen(<<>>, Info) /\ Service = "ex" /\ TagElems = <<>>) =>
              c.out = "{\"svc\":\"ex\", \"ts\":1000, \"level\":\"info\"}"

\* Info with no fields and no message was rendered with service "ex", and a
\* Line with a message was printed
C9_Witness ==
    /\ Len(calls) = 2
    /\ calls[1].op = "String" /\ calls[1].recv = Seen(<<>>, Info)
    /\ Service = "ex" /\ TagElems = <<>>
    /\ calls[1].out = "{\"svc\":\"ex\", \"ts\":1000, \"level\":\"info\"}"
    /\ calls[2].op = "Printf" /\ MsgOf(calls[2]) # ""
    /\ Produced(calls[2]) = "{\"svc\":\"ex\", \"ts\":1000, \"level\":\"info\", \"msg\":\"error: EOF\"}\n"

----------------------------------------------------------------------------
(* C11: the level that gates a Printf and the level of its record *)

\* the level written in the record of call c: the level of the Line its hook hands back
RecordLevel(c) == AfterHook(c.recv).Level

\* the line a Printf/F call c writes when its record carries the level lv
RecordAtLevel(c, lv) == TextOf([AfterHook(c.recv) EXCEPT !.Level = lv], MsgOf(c)) \o "\n"

\* C11: for every Printf/F call the level written in the record is the level
\* that decides suppression and escalation, also when the hook hands back a
\* Line of another level: no record with level "debug" is written while
\* DebugOn is false, and every record written with level "fatal" is directly
\* followed by the abnormal-termination signal.
C11_RecordLevelDecides ==
    \A i \in DOMAIN calls :
        LET c == calls[i] IN
        c.op = "Printf" =>
            \A j \in (c.from + 1)..c.to :
                trace[j].ev = "write" =>
                    /\ trace[j].text = RecordAtLevel(c, "debug") => c.dbg
                    /\ trace[j].text = RecordAtLevel(c, "fatal") =>
                          /\ j < c.to
                          /\ trace[j + 1].ev = "panic"

----------------------------------------------------------------------------
(* The Add script: from a Line a and argument lists x and y, the program    *)
(* makes b = a.Add(x), c = b.Add(y) and d = a.Add(x, y), in any order that *)
(* makes b before c.                                                       *)

\* the Lines a is drawn from, each as the Adds that build it from Error and
\* the hook and message it then gets; the Adds leave some with spare capacity
Bases ==
    { [adds |-> <<>>, fn |-> "", fmt |-> <<>>],
      [adds |-> << <<StrV("test"), StrV("TestRace")>> >>, fn |-> "", fmt |-> <<"custom fields">>],
      [adds |-> << <<StrV("ip"), StrV("1.2.3.4")>>, <<StrV("a")>> >>, fn |-> "", fmt |-> <<>>],
      [adds |-> << <<StrV("k1"), IntV(1), StrV("k2"), IntV(2)>>, <<StrV("k3"), BoolV(TRUE)>> >>,
       fn |-> "where", fmt |-> <<"custom fields">>] }

\* the argument lists x and y are drawn from
AddInputs == ArgLists \cup { <<>>, <<StrV("x"), IntV(1), StrV("y")>> }

\* l after l.Add(fs[1]...).Add(fs[2]...)..., with the heap
RECURSIVE AddAll(_, _)
AddAll(r, fs) == IF fs = <<>> THEN r ELSE AddAll(lineAdd(r.h, r.l, fs[1]), Tail(fs))

\* the Line of a recipe of Bases, built on an empty heap: [h, l]
Built(b) == AddAll([h |-> <<>>, l |-> AddFunc(Msg(Error, b.fmt, <<>>), b.fn)], b.adds)

\* what l renders now (the render itself leaves no trace in the script's state)
RenderOf(l) ==
    String(l, [h |-> heap, tr |-> <<>>, Tags |-> Tags, DebugOn |-> DebugOn,
               Service |-> Service, dead |-> FALSE]).out

\* the start of the script for the recipe b and the lists x, y; out0 is what a renders
ScriptStart(r, x, y) ==
    /\ heap = r.h
    /\ regs = [n \in {"a"} |-> r.l]
    /\ inp = [x |-> x, y |-> y, a |-> r.l,
              array |-> IF r.l.fields.arr = 0 THEN <<>> ELSE r.h[r.l.fields.arr],
              out |-> String(r.l, [h |-> r.h, tr |-> <<>>, Tags |-> EmptySlice, DebugOn |-> FALSE,
                                   Service |-> "ex", dead |-> FALSE]).out]

InitAdd ==
    /\ mallocHeader \in MallocHeaders
    /\ \E b \in Bases, x \in AddInputs, y \in AddInputs : ScriptStart(Built(b), x, y)
    /\ Tags = EmptySlice
    /\ DebugOn = FALSE
    /\ Service = "ex"
    /\ ln = Default
    /\ trace = <<>>
    /\ calls = <<>>
    /\ hist = <<>>
    /\ pc = "script"

\* register n becomes r.l, on the heap r.h
Assign(n, r) ==
    /\ heap' = r.h
    /\ regs' = [k \in DOMAIN regs \cup {n} |-> IF k = n THEN r.l ELSE regs[k]]
    /\ UNCHANGED <<mallocHeader, Tags, DebugOn, Service, ln, trace, calls, hist, pc, inp>>

\* b := a.Add(x...)
AddX ==
    /\ pc = "script"
    /\ "b" \notin DOMAIN regs
    /\ Assign("b", lineAdd(heap, regs["a"], inp.x))

\* c := b.Add(y...)
AddY ==
    /\ pc = "script"
    /\ "b" \in DOMAIN regs
    /\ "c" \notin DOMAIN regs
    /\ Assign("c", lineAdd(heap, regs["b"], inp.y))

\* d := a.Add(x..., y...)
AddXY ==
    /\ pc = "script"
    /\ "d" \notin DOMAIN regs
    /\ Assign("d", lineAdd(heap, regs["a"], inp.x \o inp.y))

NextAdd == AddX \/ AddY \/ AddXY

SpecAdd == InitAdd /\ [][NextAdd]_vars

\* the backing array of slice s, every cell of its capacity
ArrayOf(s) == IF s.arr = 0 THEN <<>> ELSE heap[s.arr]

\* C1: a.Add(x).Add(y) renders the record that a.Add(x, y) renders (and holds
\* the same fields), and after either call a is the Line it was: it renders
\* as before and its field storage, spare capacity included, is untouched.
C1_AddComposes ==
    /\ regs["a"] = inp.a
    /\ ArrayOf(regs["a"].fields) = inp.array
    /\ RenderOf(regs["a"]) = inp.out
    /\ ({"c", "d"} \subseteq DOMAIN regs) =>
          /\ RenderOf(regs["c"]) = RenderOf(regs["d"])
          /\ Elems(heap, regs["c"].fields) = Elems(heap, regs["d"].fields)
          /\ Elems(heap, regs["d"].fields) = Elems(heap, regs["a"].fields) \o inp.x \o inp.y

\* all three Adds were made from an a that has fields and spare capacity, with
\* an x of odd length and a y that is not empty
C1_Witness ==
    /\ pc = "script"
    /\ {"b", "c", "d"} \subseteq DOMAIN regs
    /\ regs["a"].fields.len > 0
    /\ regs["a"].fields.cap > regs["a"].fields.len
    /\ Len(inp.x) % 2 = 1
    /\ Len(inp.y) > 0
    /\ RenderOf(regs["c"]) = RenderOf(regs["d"])
    /\ RenderOf(regs["c"]) # RenderOf(regs["a"])

----------------------------------------------------------------------------
(* The race of TestRace: threads share one base Line; each derives its own *)
(* Line from it with Add("proc", t) and prints it MaxPrints times.  No     *)
(* call holds a lock, so a call is not one step: Add is its two appends,   *)
(* and Printf is the call of Time() with the header, the append that reads *)
(* the Line's fields, the append of the message with the serialization,    *)
(* and the write to the sink.  The steps of the threads interleave in any  *)
(* order.  The threads' Lines are Info Lines without a hook, as in         *)
(* TestRace; the steps say so in their guards.                             *)

NThreads == 2
MaxPrints == 2

Threads == 1..NThreads

\* the base Lines, each as the Adds that build it from Info; the first is
\* TestRace's, the others are left with spare capacity by their last Add
RaceBases ==
    { << <<StrV("test"), StrV("TestRace")>> >>,
      << <<StrV("test"), StrV("TestRace")>>, <<StrV("ip"), StrV("1.2.3.4")>> >>,
      << <<StrV("k1"), IntV(1), StrV("k2"), NilV>>, <<StrV("k3"), BoolV(TRUE)>> >> }

\* ln.Add("proc", i)
OwnFields(t) == <<StrV("proc"), IntV(t)>>

\* ln.Printf("count: %d", i)
CountFormat == <<"count: ", "%d">>

\* r = [h, l] with every array but l's collected
Collected(r) ==
    [h |-> Collect(r.h, {r.l.fields.arr}),
     l |-> [r.l EXCEPT !.fields = Moved(r.h, {r.l.fields.arr}, @)]]

\* a thread's local variables: ln its Line (the base until its Add returns),
\* msg the message of the Printf it is in, tmp the slice its call is building
\* (Add's copy, String's hdr), out the text String returned, at the place of
\* its call of Time() in the trace
Locals(l) == [ln |-> l, msg |-> "", tmp |-> EmptySlice, out |-> "", at |-> 0]

RaceStart(r) ==
    /\ heap = r.h
    /\ ln = r.l
    /\ regs = [t \in Threads |-> Locals(r.l)]
    /\ inp = [base |-> r.l, elems |-> Elems(r.h, r.l.fields), array |-> r.h[r.l.fields.arr]]

InitRace ==
    /\ mallocHeader \in MallocHeaders
    /\ \E b \in RaceBases : RaceStart(Collected(AddAll([h |-> <<>>, l |-> Info], b)))
    /\ Tags = EmptySlice
    /\ DebugOn = FALSE
    /\ Service = "ex"
    /\ trace = <<>>
    /\ calls = <<>>
    /\ hist = <<>>
    /\ pc = [t \in Threads |-> "derive"]

\* the arrays the base and the threads' locals rs refer to
RaceRoots(rs) ==
    {ln.fields.arr} \cup {rs[u].ln.fields.arr : u \in Threads} \cup {rs[u].tmp.arr : u \in Threads}

\* the heap h with the arrays outside roots collected, and every reference moved
MoveAll(h, rs, roots) ==
    /\ heap' = Collect(h, roots)
    /\ ln' = [ln EXCEPT !.fields = Moved(h, roots, @)]
    /\ regs' = [u \in Threads |->
                  [rs[u] EXCEPT !.ln.fields = Moved(h, roots, @), !.tmp = Moved(h, roots, @)]]

\* a step of thread t: the heap h, its locals loc, its next position p, the trace tr
\* and the calls cs after it
RaceStep(t, h, loc, p, tr, cs) ==
    /\ MoveAll(h, [regs EXCEPT ![t] = loc], RaceRoots([regs EXCEPT ![t] = loc]))
    /\ pc' = [pc EXCEPT ![t] = p]
    /\ trace' = tr
    /\ calls' = cs
    /\ UNCHANGED <<mallocHeader, Tags, DebugOn, Service, hist, inp>>

Copied(t, r) == RaceStep(t, r.h, [regs[t] EXCEPT !.tmp = r.s], "extend", trace, calls)

\* ln.Add("proc", i), first half: append(fields{}, l...)
Copy(t) ==
    /\ pc[t] = "derive"
    /\ Copied(t, fieldsCopy(heap, regs[t].ln.fields))

Extended(t, r) ==
    RaceStep(t, r.h, [regs[t] EXCEPT !.ln.fields = r.s, !.tmp = EmptySlice], "print", trace, calls)

\* ln.Add("proc", i), second half: append(..., f...), and ln := the result
Extend(t) ==
    /\ pc[t] = "extend"
    /\ Extended(t, append(heap, regs[t].tmp, OwnFields(t)))

\* the loop index of thread t: the prints it has made
LoopIndex(t) == Cardinality({i \in DOMAIN calls : calls[i].who = t})

Entered(t, r) ==
    RaceStep(t, r.h,
             [regs[t] EXCEPT !.msg = Sprintf(CountFormat, <<IntV(LoopIndex(t))>>),
                             !.tmp = r.s, !.at = Len(trace) + 1],
             "fields", Append(trace, Event("time", "")), calls)

\* ln.Printf("count: %d", i) up to the header: the gate is passed, Msg sets the
\* message, String finds no hook, calls Time() and makes
\* hdr := append(fields{"svc", Service, "ts", Time(), "level", l.Level}, Tags...)
Enter(t) ==
    /\ pc[t] = "print"
    /\ ~(regs[t].ln.Level = Debug.Level /\ ~DebugOn)
    /\ regs[t].ln.fn = ""
    /\ Entered(t, AppendTo(Literal(heap, <<StrV("svc"), StrV(Service),
                                           StrV("ts"), IntV(TimeValue),
                                           StrV("level"), StrV(regs[t].ln.Level)>>),
                           Elems(heap, Tags)))

FieldsRead(t, r) == RaceStep(t, r.h, [regs[t] EXCEPT !.tmp = r.s], "msg", trace, calls)

\* String: hdr = append(hdr, l.fields...), which reads the Line's array
ReadFields(t) ==
    /\ pc[t] = "fields"
    /\ FieldsRead(t, append(heap, regs[t].tmp, Elems(heap, regs[t].ln.fields)))

Serialized(t, r) ==
    RaceStep(t, r.h,
             [regs[t] EXCEPT !.tmp = EmptySlice, !.out = fieldsString(Elems(r.h, r.s))],
             "write", trace, calls)

\* String: return append(hdr, "msg", l.msg).String()
AddMsg(t) ==
    /\ pc[t] = "msg"
    /\ Serialized(t, append(heap, regs[t].tmp, <<StrV("msg"), StrV(regs[t].msg)>>))

\* Printf: fmt.Fprintln(stderr, ...); the Line is not fatal, so Printf returns
WriteOut(t) ==
    /\ pc[t] = "write"
    /\ regs[t].ln.Level # "fatal"
    /\ RaceStep(t, heap, [regs[t] EXCEPT !.out = "", !.msg = "", !.at = 0],
                IF LoopIndex(t) + 1 = MaxPrints THEN "done" ELSE "print",
                Append(trace, Event("write", regs[t].out \o "\n")),
                Append(calls, [who |-> t, n |-> LoopIndex(t),
                               from |-> regs[t].at, to |-> Len(trace) + 1]))

NextRace ==
    \E t \in Threads :
        Copy(t) \/ Extend(t) \/ Enter(t) \/ ReadFields(t) \/ AddMsg(t) \/ WriteOut(t)

SpecRace == InitRace /\ [][NextRace]_vars

\* the record thread t must write for its print number n: the header, then the
\* base's fields, then the thread's own, then the message
RaceRecord(t, n) ==
    TextOf([Level |-> Info.Level, elems |-> inp.elems \o OwnFields(t)], "count: " \o NatToStr(n))

\* thread t has its own Line: its Add has returned
HasOwn(t) == pc[t] \notin {"derive", "extend"}

\* C2: in every interleaving of the threads' steps, every record written is the
\* record of the print that wrote it, holding the base's fields followed by
\* that thread's own fields (so never another thread's); each thread's Line
\* holds exactly those fields in storage no other Line uses; and the base Line
\* and its field storage, spare capacity included, stay as they were.
C2_ThreadsDoNotInterfere ==
    /\ ln = inp.base
    /\ ArrayOf(ln.fields) = inp.array
    /\ \A t \in Threads :
          IF HasOwn(t)
          THEN /\ Elems(heap, regs[t].ln.fields) = inp.elems \o OwnFields(t)
               /\ regs[t].ln.fields.arr # ln.fields.arr
               /\ \A u \in Threads \ {t} : HasOwn(u) => regs[u].ln.fields.arr # regs[t].ln.fields.arr
          ELSE regs[t].ln = inp.base
    /\ Len(Sink) = Len(calls)
    /\ \A i \in DOMAIN calls :
          /\ calls[i].from < calls[i].to
          /\ trace[calls[i].from].ev = "time"
          /\ trace[calls[i].to] = Event("write", RaceRecord(calls[i].who, calls[i].n) \o "\n")
          /\ Sink[i] = RaceRecord(calls[i].who, calls[i].n) \o "\n"

\* two threads derived from a base with spare capacity and their prints
\* overlapped: thread 1 called Time() first and wrote after thread 2, whose
\* whole print fell inside thread 1's, and thread 2 made its Add while thread 1
\* was inside its second print
C2_Witness ==
    /\ ln.fields.cap > ln.fields.len
    /\ Len(calls) = 4
    /\ calls[1].who = 1
    /\ calls[2].who = 2 /\ calls[3].who = 1
    /\ calls[3].from < calls[2].from /\ calls[2].to < calls[3].to
    /\ calls[4].who = 2
    /\ Sink[2] = RaceRecord(2, 0) \o "\n"
    /\ Sink[3] = RaceRecord(1, 1) \o "\n"
    /\ Sink[2] # Sink[3]

=============================================================================
